---- MODULE Spec2Model ----
(***************************************************************************)
(* A model of dom-screen: the ScreenLocator pipeline (screen_locator.ts),  *)
(* the DomScreen render/cleanup session (dom_screen.ts and its static      *)
(* predecessor) and the retrying matcher wrapper (screen_matchers.ts).     *)
(*                                                                         *)
(* Strings that the code inspects (texts, values, role attributes) are     *)
(* sequences of one-character strings, so that includes(), split() and     *)
(* the whitespace normalisation are computed and not assumed.  Strings     *)
(* that the code only copies (selectors, descriptions) are TLA+ strings.   *)
(***************************************************************************)
EXTENDS Integers, Sequences, FiniteSets, TLC

VARIABLES
    \* ---- locator pipeline ------------------------------------------------
    locs,        \* heap of ScreenLocator objects: <<[root, matchers]>>
    lastIndex,   \* RegExp.lastIndex of every RegExp object handed to a step
    value,       \* the value property of the form elements of the tree
    setters,     \* which value setters the form elements carry
    ret,         \* what the last ScreenLocator call did and returned/threw
    \* ---- DomScreen session ----------------------------------------------
    screen,      \* the render/cleanup state of the DomScreen
    \* ---- retry wrapper ---------------------------------------------------
    retry        \* the state of one call of a waitForSuccess matcher

vars == <<locs, lastIndex, value, setters, ret, screen, retry>>

(***************************************************************************)
(* Bounds of the model.                                                    *)
(***************************************************************************)
MaxLocs == 3
MaxSteps == 2
MaxValueLen == 2
MaxRenders == 2
MaxInvocations == 2

(***************************************************************************)
(* The rendered tree.  Node 1 is the <dom-screen> container that render()  *)
(* attaches; childNodes lists text nodes and elements in document order.   *)
(*                                                                         *)
(*   <dom-screen>                                   1                      *)
(*     <div class="c"> a\n                          2                      *)
(*       <div class="c d" role="tab btn">a          3                      *)
(*         <div>a b</div>                           6                      *)
(*       </div>                                                            *)
(*       <p role="btn">b</p>                        4                      *)
(*        b                                                                *)
(*       <input role="btn">                         5                      *)
(*       <textarea role="btns"></textarea>          7                      *)
(*       <button type="button" role="x\tbtn">k</button>   8  (\t: a tab)   *)
(*     </div>                                                              *)
(***************************************************************************)
Nodes == 1..8

Txt(s) == [t |-> "text", s |-> s]
Elt(n) == [t |-> "elem", n |-> n]

tagName ==
    [n \in Nodes |->
        CASE n = 1 -> "DOM-SCREEN"
          [] n \in {2, 3, 6} -> "DIV"
          [] n = 4 -> "P"
          [] n = 5 -> "INPUT"
          [] n = 7 -> "TEXTAREA"
          [] n = 8 -> "BUTTON"]

className ==
    [n \in Nodes |->
        CASE n = 2 -> {"c"}
          [] n = 3 -> {"c", "d"}
          [] OTHER -> {}]

\* getAttribute('role'): <<>> stands for null (no role attribute).
roleAttr ==
    [n \in Nodes |->
        CASE n = 3 -> <<"t", "a", "b", " ", "b", "t", "n">>
          [] n \in {4, 5} -> <<"b", "t", "n">>
          [] n = 7 -> <<"b", "t", "n", "s">>
          [] n = 8 -> <<"x", "\t", "b", "t", "n">>
          [] OTHER -> <<>>]

childNodes ==
    [n \in Nodes |->
        CASE n = 1 -> <<Elt(2)>>
          [] n = 2 -> <<Txt(<<" ", "a", "\n">>), Elt(3), Elt(4),
                        Txt(<<" ", "b", " ">>), Elt(5), Elt(7), Elt(8)>>
          [] n = 3 -> <<Txt(<<"a">>), Elt(6)>>
          [] n = 4 -> <<Txt(<<"b">>)>>
          [] n = 6 -> <<Txt(<<"a", " ", "b">>)>>
          [] n = 8 -> <<Txt(<<"k">>)>>
          [] OTHER -> <<>>]

\* The value property of the elements whose value no call of the model
\* writes: the button has no value attribute.
valueAttr == [n \in {8} |-> <<>>]

FormNodes == {n \in Nodes : tagName[n] \in {"INPUT", "TEXTAREA", "SELECT"}}

\* The element children of n, in order.
RECURSIVE ElemsOf(_)
ElemsOf(cs) ==
    IF cs = <<>> THEN <<>>
    ELSE (IF Head(cs).t = "elem" THEN <<Head(cs).n>> ELSE <<>>) \o ElemsOf(Tail(cs))

children == [n \in Nodes |-> ElemsOf(childNodes[n])]

parentNode ==
    [n \in Nodes |->
        IF \E p \in Nodes : \E i \in DOMAIN children[p] : children[p][i] = n
        THEN CHOOSE p \in Nodes : \E i \in DOMAIN children[p] : children[p][i] = n
        ELSE 0]

\* e.querySelectorAll('*'): the proper descendants of n in document order.
RECURSIVE Descendants(_)
RECURSIVE DescendantsOfAll(_)
Descendants(n) == DescendantsOfAll(children[n])
DescendantsOfAll(cs) ==
    IF cs = <<>> THEN <<>>
    ELSE <<Head(cs)>> \o Descendants(Head(cs)) \o DescendantsOfAll(Tail(cs))

Range(s) == {s[i] : i \in DOMAIN s}

RECURSIVE IsProperDescendant(_, _)
IsProperDescendant(d, a) ==
    /\ parentNode[d] # 0
    /\ (parentNode[d] = a \/ IsProperDescendant(parentNode[d], a))

(***************************************************************************)
(* Text extraction (screen_locator.ts, getNormalizedText).                 *)
(***************************************************************************)
IsSpace(c) == c \in {" ", "\n", "\t"}

RECURSIVE DropSpaces(_)
DropSpaces(s) ==
    IF s # <<>> /\ IsSpace(Head(s)) THEN DropSpaces(Tail(s)) ELSE s

\* s.replace(/\s+/g, ' '): every run of whitespace becomes one space.
RECURSIVE CollapseSpaces(_)
CollapseSpaces(s) ==
    IF s = <<>> THEN <<>>
    ELSE IF IsSpace(Head(s)) THEN <<" ">> \o CollapseSpaces(DropSpaces(s))
    ELSE <<Head(s)>> \o CollapseSpaces(Tail(s))

RECURSIVE DropTrailingSpaces(_)
DropTrailingSpaces(s) ==
    IF s # <<>> /\ IsSpace(s[Len(s)])
    THEN DropTrailingSpaces(SubSeq(s, 1, Len(s) - 1))
    ELSE s

Trim(s) == DropTrailingSpaces(DropSpaces(s))

\* A normalisation that collapses the runs but keeps the ends.
normalizeWhitespaceUntrimmed(s) == CollapseSpaces(s)
normalizeWhitespace(s) == Trim(CollapseSpaces(s))

\* The concatenated textContent of the direct text-node children.
RECURSIVE TextOf(_)
TextOf(cs) ==
    IF cs = <<>> THEN <<>>
    ELSE (IF Head(cs).t = "text" THEN Head(cs).s ELSE <<>>) \o TextOf(Tail(cs))

getNormalizedText(n, val) ==
    IF tagName[n] = "INPUT" \/ tagName[n] = "TEXTAREA"
    THEN val[n]
    ELSE normalizeWhitespace(TextOf(childNodes[n]))

\* String.prototype.includes
Includes(s, t) ==
    \E i \in 0..(Len(s) - Len(t)) : SubSeq(s, i + 1, i + Len(t)) = t

(***************************************************************************)
(* RegExp objects.  A step keeps a reference to the RegExp object it was   *)
(* given, and RegExp.prototype.test reads and writes the object's          *)
(* lastIndex when the global flag is set.                                  *)
(***************************************************************************)
Regexes ==
    <<[src |-> <<"a">>, start |-> FALSE, end |-> FALSE, global |-> TRUE,
       text |-> "/a/g"],
      [src |-> <<"b">>, start |-> TRUE, end |-> TRUE, global |-> FALSE,
       text |-> "/^b$/"]>>

RegexIds == DOMAIN Regexes

Min(S) == CHOOSE x \in S : \A y \in S : x <= y

\* re.test(s) with re.lastIndex = li: [ok, li] is the result and the new
\* lastIndex.
RegExpTest(id, li, s) ==
    LET re == Regexes[id]
        n == Len(re.src)
        from == IF re.global THEN li ELSE 0
        hits == {p \in from..(Len(s) - n) :
                    /\ SubSeq(s, p + 1, p + n) = re.src
                    /\ (re.start => p = 0)
                    /\ (re.end => p + n = Len(s))}
    IN  IF hits = {}
        THEN [ok |-> FALSE, li |-> IF re.global THEN 0 ELSE li]
        ELSE [ok |-> TRUE, li |-> IF re.global THEN Min(hits) + n ELSE li]

\* The text matches the regular expression somewhere (a fresh search).
RegExpMatches(id, s) ==
    LET re == Regexes[id]
        n == Len(re.src)
    IN  \E p \in 0..(Len(s) - n) :
            /\ SubSeq(s, p + 1, p + n) = re.src
            /\ (re.start => p = 0)
            /\ (re.end => p + n = Len(s))

(***************************************************************************)
(* Selectors: Element.matches and Element.querySelectorAll of the host     *)
(* tree, for the selectors the model uses.                                 *)
(***************************************************************************)
Selectors == {"div", ".c", "input", "textarea", "div > div", ".c.d", ".f"}

SelectorDef(sel) ==
    CASE sel = "div" -> [tag |-> "DIV", cls |-> {}, parent |-> ""]
      [] sel = ".c" -> [tag |-> "*", cls |-> {"c"}, parent |-> ""]
      [] sel = "input" -> [tag |-> "INPUT", cls |-> {}, parent |-> ""]
      [] sel = "textarea" -> [tag |-> "TEXTAREA", cls |-> {}, parent |-> ""]
      [] sel = "div > div" -> [tag |-> "DIV", cls |-> {}, parent |-> "div"]
      [] sel = ".c.d" -> [tag |-> "*", cls |-> {"c", "d"}, parent |-> ""]
      [] sel = ".f" -> [tag |-> "*", cls |-> {"f"}, parent |-> ""]

RECURSIVE Matches(_, _)
Matches(n, sel) ==
    LET d == SelectorDef(sel)
    IN  /\ (d.tag = "*" \/ tagName[n] = d.tag)
        /\ d.cls \subseteq className[n]
        /\ (d.parent # "" =>
                parentNode[n] # 0 /\ Matches(parentNode[n], d.parent))

querySelectorAll(e, sel) ==
    SelectSeq(Descendants(e), LAMBDA d : Matches(d, sel))

(***************************************************************************)
(* Steps (LocatorMatcher): the description and the closure of one chained  *)
(* call.  A text argument is a string or a reference to a RegExp object.   *)
(***************************************************************************)
StrArg(s) == [kind |-> "str", s |-> s]
ReArg(id) == [kind |-> "re", id |-> id]

\* The characters of a string as one TLA+ string: `${s}` of a string.
RECURSIVE Str(_)
Str(s) == IF s = <<>> THEN "" ELSE Head(s) \o Str(Tail(s))

\* `${s}` of a string or RegExp argument.
ArgText(a) == IF a.kind = "str" THEN Str(a.s) ELSE Regexes[a.id].text

LocateStep(sel) ==
    [description |-> "locate(" \o sel \o ")", kind |-> "locate", arg |-> sel]
FilterTextStep(a) ==
    [description |-> "filterText(" \o ArgText(a) \o ")", kind |-> "filterText",
     arg |-> a]
LocateRoleStep(role) ==
    [description |-> "locateRole(" \o Str(role) \o ")", kind |-> "locateRole",
     arg |-> role]
\* A locateText that describes a RegExp as it does a string.
LocateTextStepPlain(a) ==
    [description |-> "locateText(" \o ArgText(a) \o ")",
     kind |-> "locateText", arg |-> a]
LocateTextStep(a) ==
    [description |->
        IF a.kind = "re" THEN "locateText(regexp: " \o ArgText(a) \o ")"
        ELSE "locateText(" \o ArgText(a) \o ")",
     kind |-> "locateText", arg |-> a]
FirstStep == [description |-> "first()", kind |-> "first", arg |-> ""]

\* attr.split(' '): the pieces of s between single spaces.
RECURSIVE SplitSpace(_, _)
SplitSpace(s, cur) ==
    IF s = <<>> THEN <<cur>>
    ELSE IF Head(s) = " " THEN <<cur>> \o SplitSpace(Tail(s), <<>>)
    ELSE SplitSpace(Tail(s), Append(cur, Head(s)))

\* The predicate of matchRole for one element.
HasRole(e, role) ==
    LET roles == SplitSpace(roleAttr[e], <<>>)
    IN  \E i \in DOMAIN roles : Trim(roles[i]) = role

\* isFound of filterText / isMatch of matchText and matchRegExp for one
\* element: [ok, li] with li the lastIndex of every RegExp afterwards.
TextTest(a, e, val, li) ==
    IF a.kind = "str"
    THEN [ok |-> Includes(getNormalizedText(e, val), a.s), li |-> li]
    ELSE LET r == RegExpTest(a.id, li[a.id], getNormalizedText(e, val))
         IN  [ok |-> r.ok, li |-> [li EXCEPT ![a.id] = r.li]]

\* A descendant scan that also visits the element itself.
RECURSIVE VisitSelfAndDescendants(_)
VisitSelfAndDescendants(prev) ==
    IF prev = <<>> THEN <<>>
    ELSE <<Head(prev)>> \o Descendants(Head(prev))
            \o VisitSelfAndDescendants(Tail(prev))

\* The elements a step visits, in the order of its loops.
RECURSIVE VisitDescendants(_)
VisitDescendants(prev) ==
    IF prev = <<>> THEN <<>>
    ELSE Descendants(Head(prev)) \o VisitDescendants(Tail(prev))

RECURSIVE VisitSelected(_, _)
VisitSelected(prev, sel) ==
    IF prev = <<>> THEN <<>>
    ELSE querySelectorAll(Head(prev), sel) \o VisitSelected(Tail(prev), sel)

\* One iteration of the loop the match functions share: test the element
\* e and add it to the result Set (insertion order, no duplicates).  acc
\* is [set, li]: the results so far and the lastIndex of every RegExp.
CollectOne(e, step, val, acc) ==
    CHOOSE out \in
        {[set |-> IF r.ok /\ e \notin Range(acc.set)
                  THEN Append(acc.set, e) ELSE acc.set,
          li |-> r.li] :
            r \in {CASE step.kind = "locate" -> [ok |-> TRUE, li |-> acc.li]
                     [] step.kind = "locateRole" ->
                            [ok |-> HasRole(e, step.arg), li |-> acc.li]
                     [] OTHER -> TextTest(step.arg, e, val, acc.li)}} : TRUE

RECURSIVE Collect(_, _, _, _)
Collect(visit, step, val, acc) ==
    IF visit = <<>> THEN acc
    ELSE CHOOSE out \in
            {Collect(Tail(visit), step, val, nxt) :
                nxt \in {CollectOne(Head(visit), step, val, acc)}} : TRUE

matchQuerySelector(prev, step, val, li) ==
    Collect(VisitSelected(prev, step.arg), step, val, [set |-> <<>>, li |-> li])

matchDescendants(prev, step, val, li) ==
    Collect(VisitDescendants(prev), step, val, [set |-> <<>>, li |-> li])

filterText(prev, step, val, li) ==
    Collect(prev, step, val, [set |-> <<>>, li |-> li])

\* A first() that narrows nothing.
firstKeepsAll(prev, li) == [set |-> prev, li |-> li]
first(prev, li) ==
    [set |-> IF prev = <<>> THEN <<>> ELSE <<Head(prev)>>, li |-> li]

\* step.match(prev)
Match(step, prev, val, li) ==
    CASE step.kind = "locate" -> matchQuerySelector(prev, step, val, li)
      [] step.kind \in {"locateRole", "locateText"} ->
            matchDescendants(prev, step, val, li)
      [] step.kind = "filterText" -> filterText(prev, step, val, li)
      [] step.kind = "first" -> first(prev, li)

\* The loop of allElements() over the steps; found is [set, li].
RECURSIVE RunMatchers(_, _, _)
RunMatchers(matchers, found, val) ==
    IF matchers = <<>> THEN found
    ELSE CHOOSE out \in
            {RunMatchers(Tail(matchers), nxt, val) :
                nxt \in {Match(Head(matchers), found.set, val, found.li)}} : TRUE

\* allElements(): [set, li], the array returned and the lastIndex of every
\* RegExp after the evaluation.
allElements(loc, val, li) ==
    RunMatchers(loc.matchers, [set |-> <<loc.root>>, li |-> li], val)

describe(loc) == [i \in DOMAIN loc.matchers |-> loc.matchers[i].description]

RECURSIVE JoinArrow(_)
JoinArrow(ds) ==
    IF ds = <<>> THEN ""
    ELSE IF Len(ds) = 1 THEN ds[1]
    ELSE ds[1] \o " -> " \o JoinArrow(Tail(ds))

formatDescription(loc) == JoinArrow(describe(loc))

(***************************************************************************)
(* The key-event table KeyPress (keypress.ts): each key's KeyboardEvent    *)
(* init, with the key string and the DOM keyCode of the key.               *)
(***************************************************************************)
KeyPress ==
    [k \in {"F", "Enter", "Tab", "ArrowUp"} |->
        CASE k = "F" -> [key |-> <<"F">>, keyCode |-> 70]
          [] k = "Enter" -> [key |-> <<"E", "n", "t", "e", "r">>, keyCode |-> 13]
          [] k = "Tab" -> [key |-> <<"T", "a", "b">>, keyCode |-> 9]
          [] k = "ArrowUp" ->
                [key |-> <<"A", "r", "r", "o", "w", "U", "p">>, keyCode |-> 38]]

\* The keys a caller may pass: those of the table and one that is not in it.
KeyNames == DOMAIN KeyPress \cup {"Nope"}

\* The keys of the table that produce a character when typed.
CharacterKeys == {"F"}

PrintableLow == 33
PrintableHigh == 127

isPrintable(keyCode) == PrintableLow <= keyCode /\ keyCode < PrintableHigh

(***************************************************************************)
(* setElementValue: the element's own and its prototype's value setter.    *)
(* "none" is an absent setter; own = "tracker" is a setter installed on    *)
(* the element itself (as React's value tracker does).                     *)
(***************************************************************************)
SetterKinds ==
    {[own |-> "none", proto |-> "native"],
     [own |-> "tracker", proto |-> "native"],
     [own |-> "tracker", proto |-> "none"],
     [own |-> "none", proto |-> "none"]}

\* [value, threw]: the element's value afterwards, and whether the call threw.
setElementValue(kind, old, new) ==
    IF kind.proto # "none" /\ kind.own # kind.proto
    THEN [value |-> new, threw |-> FALSE]
    ELSE IF kind.own # "none"
    THEN [value |-> new, threw |-> TRUE]
    ELSE [value |-> old, threw |-> TRUE]

(***************************************************************************)
(* The calls of a ScreenLocator.  Each outcome is [ret, value, li]: the    *)
(* record of the call, the values of the form elements and the lastIndex   *)
(* of the RegExp objects afterwards.                                       *)
(***************************************************************************)
NoErr == <<>>
Ev(type) == [type |-> type, inAct |-> TRUE]

Ret(op, loc, arg, status, elems, err, events, acts) ==
    [op |-> op, loc |-> loc, arg |-> arg, status |-> status, elems |-> elems,
     err |-> err, events |-> events, acts |-> acts, new |-> 0]

Outcome(r, val, li) == [ret |-> r, value |-> val, li |-> li]

LowerTag(e) ==
    CASE tagName[e] = "DOM-SCREEN" -> "dom-screen"
      [] tagName[e] = "DIV" -> "div"
      [] tagName[e] = "P" -> "p"
      [] tagName[e] = "INPUT" -> "input"
      [] tagName[e] = "TEXTAREA" -> "textarea"
      [] tagName[e] = "BUTTON" -> "button"

\* elem instanceof HTMLInputElement / HTMLTextAreaElement / HTMLSelectElement
IsFormElement(e) == e \in FormNodes

\* Zero/multiple checks that let a call go on with the first of several
\* matches.
CardinalityErrorFirstOfMany(loc, elems, what) ==
    IF Len(elems) = 0
    THEN <<"no elements found " \o what \o ": ", formatDescription(loc)>>
    ELSE NoErr

\* The zero/multiple checks that open element(), click(), press(), fill()
\* and blur(): the error thrown, or NoErr when exactly one element matched.
CardinalityError(loc, elems, what) ==
    IF Len(elems) = 0
    THEN <<"no elements found " \o what \o ": ", formatDescription(loc)>>
    ELSE IF Len(elems) > 1
    THEN <<"multiple elements found " \o what \o ": ", formatDescription(loc)>>
    ELSE NoErr

element(h, L, val, li) ==
    LET m == allElements(h[L], val, li)
        err == CardinalityError(h[L], m.set, "but expected one")
    IN  IF err # NoErr
        THEN Outcome(Ret("element", L, "", "throw", <<>>, err, <<>>, 0), val, m.li)
        ELSE Outcome(Ret("element", L, "", "ok", m.set, NoErr, <<>>, 0), val, m.li)

click(h, L, val, li) ==
    LET m == allElements(h[L], val, li)
        err == CardinalityError(h[L], m.set, "to click")
    IN  IF err # NoErr
        THEN Outcome(Ret("click", L, "", "throw", <<>>, err, <<>>, 0), val, m.li)
        ELSE Outcome(Ret("click", L, "", "ok", m.set, NoErr,
                         <<Ev("focus"), Ev("click"), Ev("blur")>>, 1), val, m.li)

SetterErr == <<"element does not have a value setter", "">>

\* The callback press() hands to the runner, for the single matched form
\* element m.set[1] and a key of the table.
pressAct(L, key, m, val, set) ==
    LET elem == m.set[1]
        keyEv == KeyPress[key]
        before == <<Ev("focus()"), Ev("focus"), Ev("keydown"), Ev("keyup")>>
        after == <<Ev("keypress"), Ev("input"), Ev("change")>>
        sv == setElementValue(set[elem], val[elem], val[elem] \o keyEv.key)
    IN  IF ~isPrintable(keyEv.keyCode)
        THEN Outcome(Ret("press", L, key, "ok", m.set, NoErr,
                         before \o after, 1), val, m.li)
        ELSE IF sv.threw
        THEN Outcome(Ret("press", L, key, "throw", m.set, SetterErr,
                         Append(before, Ev("setValue")), 1),
                     [val EXCEPT ![elem] = sv.value], m.li)
        ELSE Outcome(Ret("press", L, key, "ok", m.set, NoErr,
                         before \o <<Ev("setValue")>> \o after, 1),
                     [val EXCEPT ![elem] = sv.value], m.li)

\* A press() that looks the key up inside the callback, after focusing.
pressLooksUpKeyInAct(h, L, key, val, set, li) ==
    LET m == allElements(h[L], val, li)
        err == CardinalityError(h[L], m.set, "to press")
        elem == m.set[1]
        T(e) == Outcome(Ret("press", L, key, "throw", <<>>, e, <<>>, 0), val, m.li)
    IN  IF err # NoErr THEN T(err)
        ELSE IF ~IsFormElement(elem)
        THEN T(<<"cannot press key on tag: ", LowerTag(elem)>>)
        ELSE IF key \notin DOMAIN KeyPress
        THEN Outcome(Ret("press", L, key, "throw", m.set,
                         <<"unknown key: ", key \o "; maybe not yet added to KeyPress?">>,
                         <<Ev("focus()"), Ev("focus")>>, 1), val, m.li)
        ELSE pressAct(L, key, m, val, set)
press(h, L, key, val, set, li) ==
    LET m == allElements(h[L], val, li)
        err == CardinalityError(h[L], m.set, "to press")
        elem == m.set[1]
        T(e) == Outcome(Ret("press", L, key, "throw", <<>>, e, <<>>, 0), val, m.li)
    IN  IF err # NoErr THEN T(err)
        ELSE IF ~IsFormElement(elem)
        THEN T(<<"cannot press key on tag: ", LowerTag(elem)>>)
        ELSE IF key \notin DOMAIN KeyPress
        THEN T(<<"unknown key: ", key \o "; maybe not yet added to KeyPress?">>)
        ELSE pressAct(L, key, m, val, set)

\* A fill() that writes the value after the input and change events.
fillSetsValueLast(h, L, v, val, set, li) ==
    LET m == allElements(h[L], val, li)
        err == CardinalityError(h[L], m.set, "to fill")
        elem == m.set[1]
        T(e) == Outcome(Ret("fill", L, v, "throw", <<>>, e, <<>>, 0), val, m.li)
    IN  IF err # NoErr THEN T(err)
        ELSE IF ~IsFormElement(elem)
        THEN T(<<"cannot fill out tag: ", LowerTag(elem)>>)
        ELSE
        LET before == <<Ev("focus()"), Ev("focus"), Ev("input"), Ev("change")>>
            after == <<Ev("blur()"), Ev("blur")>>
            sv == setElementValue(set[elem], val[elem], v)
        IN  IF sv.threw
            THEN Outcome(Ret("fill", L, v, "throw", m.set, SetterErr,
                             Append(before, Ev("setValue")), 1),
                         [val EXCEPT ![elem] = sv.value], m.li)
            ELSE Outcome(Ret("fill", L, v, "ok", m.set, NoErr,
                             before \o <<Ev("setValue")>> \o after, 1),
                         [val EXCEPT ![elem] = sv.value], m.li)
fill(h, L, v, val, set, li) ==
    LET m == allElements(h[L], val, li)
        err == CardinalityError(h[L], m.set, "to fill")
        elem == m.set[1]
        T(e) == Outcome(Ret("fill", L, v, "throw", <<>>, e, <<>>, 0), val, m.li)
    IN  IF err # NoErr THEN T(err)
        ELSE IF ~IsFormElement(elem)
        THEN T(<<"cannot fill out tag: ", LowerTag(elem)>>)
        ELSE
        LET before == <<Ev("focus()"), Ev("focus")>>
            after == <<Ev("input"), Ev("change"), Ev("blur()"), Ev("blur")>>
            sv == setElementValue(set[elem], val[elem], v)
        IN  IF sv.threw
            THEN Outcome(Ret("fill", L, v, "throw", m.set, SetterErr,
                             Append(before, Ev("setValue")), 1),
                         [val EXCEPT ![elem] = sv.value], m.li)
            ELSE Outcome(Ret("fill", L, v, "ok", m.set, NoErr,
                             before \o <<Ev("setValue")>> \o after, 1),
                         [val EXCEPT ![elem] = sv.value], m.li)

blur(h, L, val, li) ==
    LET m == allElements(h[L], val, li)
        err == CardinalityError(h[L], m.set, "to fill")
    IN  IF err # NoErr
        THEN Outcome(Ret("blur", L, "", "throw", <<>>, err, <<>>, 0), val, m.li)
        ELSE Outcome(Ret("blur", L, "", "ok", m.set, NoErr,
                         <<Ev("blur()"), Ev("blur")>>, 1), val, m.li)

\* A chainLocator that pushes the step onto the receiver's own array and
\* shares it with the new object.
chainLocatorShared(h, L, step) ==
    LET pushed == [h EXCEPT ![L].matchers = Append(@, step)]
    IN  Append(pushed, [root |-> h[L].root, matchers |-> pushed[L].matchers])

\* chainLocator: the heap after `new ScreenLocator(act, root, [...matchers,
\* step])`; the new object is the last one.
chainLocator(h, L, step) ==
    Append(h, [root |-> h[L].root, matchers |-> Append(h[L].matchers, step)])

\* ScreenLocator.of(act, element)
of(e) == [root |-> e, matchers |-> <<>>]

(***************************************************************************)
(* Inputs of the locator specifications.                                   *)
(***************************************************************************)
Roots == {1, 2}
LocateArgs == {"div", ".c"}
RoleArgs == {<<"b", "t", "n">>}
LocateTextArgs == {StrArg(<<"a">>), ReArg(2)}
FilterTextArgs == {StrArg(<<"b">>), ReArg(1)}
FillValues == {<<>>, <<"a">>}

NoScreen == [version |-> "none"]
NoRetry == [pc |-> "none"]

InitRet == Ret("init", 0, "", "ok", <<>>, NoErr, <<>>, 0)

(***************************************************************************)
(* SpecLoc: chaining and materialising locators over the rendered tree.    *)
(***************************************************************************)
InitLoc ==
    /\ \E r \in Roots : locs = <<of(r)>>
    /\ lastIndex = [id \in RegexIds |-> 0]
    /\ value = [n \in FormNodes |-> IF n = 5 THEN <<"a">> ELSE <<>>]
    /\ setters = [n \in FormNodes |-> [own |-> "none", proto |-> "native"]]
    /\ ret = InitRet
    /\ screen = NoScreen
    /\ retry = NoRetry

CanChain(L) ==
    /\ L \in DOMAIN locs
    /\ Len(locs) < MaxLocs
    /\ Len(locs[L].matchers) < MaxSteps

\* The step each chaining method hands to chainLocator.
StepOf(op, arg) ==
    CASE op = "locate" -> LocateStep(arg)
      [] op = "filterText" -> FilterTextStep(arg)
      [] op = "locateRole" -> LocateRoleStep(arg)
      [] op = "locateText" -> LocateTextStep(arg)
      [] op = "first" -> FirstStep

\* The effect shared by the chaining methods: a new object, nothing else.
Chain(L, op, arg) ==
    /\ CanChain(L)
    /\ locs' = chainLocator(locs, L, StepOf(op, arg))
    /\ ret' = [Ret(op, L, arg, "ok", <<>>, NoErr, <<>>, 0) EXCEPT !.new = Len(locs')]
    /\ UNCHANGED <<lastIndex, value, setters, screen, retry>>

Locate(L, sel) == Chain(L, "locate", sel)

\* locate(''): returns this.
LocateEmpty(L) ==
    /\ L \in DOMAIN locs
    /\ ret' = [Ret("locate", L, "", "ok", <<>>, NoErr, <<>>, 0) EXCEPT !.new = L]
    /\ UNCHANGED <<locs, lastIndex, value, setters, screen, retry>>

FilterText(L, a) == Chain(L, "filterText", a)

LocateRole(L, role) == Chain(L, "locateRole", role)

LocateText(L, a) == Chain(L, "locateText", a)

First(L) == Chain(L, "first", "")

AllElements(L) ==
    /\ L \in DOMAIN locs
    /\ LET m == allElements(locs[L], value, lastIndex)
       IN  /\ ret' = Ret("allElements", L, "", "ok", m.set, NoErr, <<>>, 0)
           /\ lastIndex' = m.li
    /\ UNCHANGED <<locs, value, setters, screen, retry>>

\* Applies the outcome of a call that materialises the locator.
Apply(o) ==
    /\ ret' = o.ret
    /\ value' = o.value
    /\ lastIndex' = o.li
    /\ UNCHANGED <<locs, setters, screen, retry>>

Element(L) ==
    /\ L \in DOMAIN locs
    /\ Apply(element(locs, L, value, lastIndex))

NextLoc ==
    \/ \E L \in 1..MaxLocs, sel \in LocateArgs : Locate(L, sel)
    \/ \E L \in 1..MaxLocs : LocateEmpty(L)
    \/ \E L \in 1..MaxLocs, a \in FilterTextArgs : FilterText(L, a)
    \/ \E L \in 1..MaxLocs, role \in RoleArgs : LocateRole(L, role)
    \/ \E L \in 1..MaxLocs, a \in LocateTextArgs : LocateText(L, a)
    \/ \E L \in 1..MaxLocs : First(L)
    \/ \E L \in 1..MaxLocs : AllElements(L)

SpecLoc == InitLoc /\ [][NextLoc]_vars

(***************************************************************************)
(* SpecAct: element(), click(), press(), fill() and blur() on locators a   *)
(* test has built from the rendered root: the root itself (one element     *)
(* that is no form element), the input, the textarea, all divs (several    *)
(* elements) and the input filtered by a RegExp (no element while the      *)
(* input's value has no match).                                            *)
(***************************************************************************)
ActLocators ==
    LET h1 == chainLocator(<<of(1)>>, 1, LocateStep("input"))
        h2 == chainLocator(h1, 1, LocateStep("textarea"))
        h3 == chainLocator(h2, 1, LocateStep("div"))
    IN  chainLocator(h3, 2, FilterTextStep(ReArg(1)))

InitAct ==
    /\ locs = ActLocators
    /\ lastIndex = [id \in RegexIds |-> 0]
    /\ value = [n \in FormNodes |-> <<>>]
    /\ \E k \in SetterKinds :
        setters = [n \in FormNodes |->
                    IF n = 5 THEN k ELSE [own |-> "tracker", proto |-> "native"]]
    /\ ret = InitRet
    /\ screen = NoScreen
    /\ retry = NoRetry

\* The model stops pressing keys once the form elements hold MaxValueLen
\* characters between them.
RECURSIVE TypedLen(_)
TypedLen(S) ==
    IF S = {} THEN 0
    ELSE LET n == CHOOSE x \in S : TRUE
         IN  Len(value[n]) + TypedLen(S \ {n})

RoomToType == TypedLen(FormNodes) < MaxValueLen

Click(L) ==
    /\ L \in DOMAIN locs
    /\ Apply(click(locs, L, value, lastIndex))

Press(L, key) ==
    /\ L \in DOMAIN locs
    /\ RoomToType
    /\ Apply(press(locs, L, key, value, setters, lastIndex))

Fill(L, v) ==
    /\ L \in DOMAIN locs
    /\ Apply(fill(locs, L, v, value, setters, lastIndex))

Blur(L) ==
    /\ L \in DOMAIN locs
    /\ Apply(blur(locs, L, value, lastIndex))

NextAct ==
    \/ \E L \in DOMAIN locs : AllElements(L)
    \/ \E L \in DOMAIN locs : Element(L)
    \/ \E L \in DOMAIN locs : Click(L)
    \/ \E L \in DOMAIN locs, key \in KeyNames : Press(L, key)
    \/ \E L \in DOMAIN locs, v \in FillValues : Fill(L, v)
    \/ \E L \in DOMAIN locs : Blur(L)

SpecAct == InitAct /\ [][NextAct]_vars

(***************************************************************************)
(* SpecScreen: DomScreen.render and the cleanup hook.  The source holds    *)
(* three versions of the class, and screen.version says which one runs:    *)
(*   "static"    static render/cleanup, module-level globalAct             *)
(*   "act"       an instance made by initTest({act, expect, afterEach})    *)
(*   "lifecycle" an instance made by initTest({lifecycle, afterEach})      *)
(* screen.containers lists the <dom-screen> elements render() created, in  *)
(* order; a teardown thunk is named by the index of its container.         *)
(* screen.flag is self.IS_REACT_ACT_ENVIRONMENT, FALSE also while unset.   *)
(***************************************************************************)
Versions == {"static", "act", "lifecycle"}
Titles == {"", "t"}

\* screen.last describes the latest call: ran lists the thunks it invoked
\* and steps what it did to the document and the roots, in order, each with
\* whether it ran inside a callback of the runner.
NoCall == [op |-> "none", status |-> "ok", ran |-> <<>>, err |-> "",
           steps |-> <<>>]
Step(c, what, inAct) == [c |-> c, what |-> what, inAct |-> inAct]

InitScreen ==
    /\ \E v \in Versions :
        screen = [version |-> v,
                  isInit |-> v # "static",
                  flag |-> FALSE,
                  title |-> "",
                  containers |-> <<>>,
                  cleanups |-> <<>>,
                  last |-> NoCall]
    /\ locs = <<>>
    /\ lastIndex = [id \in RegexIds |-> 0]
    /\ value = [n \in FormNodes |-> <<>>]
    /\ setters = [n \in FormNodes |-> [own |-> "none", proto |-> "native"]]
    /\ ret = InitRet
    /\ retry = NoRetry

\* An isInit that takes every module for configured.
isInitAlways(sc) == TRUE
\* const isInit = () => globalAct != null
isInit(sc) == sc.isInit

\* DomScreen.initTest of the static version: sets globalAct and registers
\* the cleanup hook, once.
initTest(sc) ==
    IF isInit(sc) THEN [sc EXCEPT !.last = [NoCall EXCEPT !.op = "initTest"]]
    ELSE [sc EXCEPT !.isInit = TRUE, !.last = [NoCall EXCEPT !.op = "initTest"]]

NewContainer == [attached |-> TRUE, root |-> "created", invoked |-> 0]

\* render(node).  fails: rendering the node throws inside the runner;
\* title: the document title the rendered node leaves behind.
render(sc, fails, title) ==
    LET c == Len(sc.containers) + 1
        did == <<Step(c, "appendChild", FALSE), Step(c, "createRoot", FALSE),
                 Step(c, "render", TRUE)>>
        threw == [NoCall EXCEPT !.op = "render", !.status = "throw",
                                !.err = "render failed", !.steps = did]
        done == [NoCall EXCEPT !.op = "render", !.steps = did]
        rendered == [NewContainer EXCEPT !.root = "rendered"]
    IN  IF ~isInit(sc)
        THEN [sc EXCEPT !.last =
                [threw EXCEPT !.err = "DomScreen.initTest() not called before DomScreen.render().",
                              !.steps = <<>>]]
        ELSE IF sc.version = "lifecycle"
        THEN \* createRoot, act(render), and only then cleanups.push
             IF fails
             THEN [sc EXCEPT !.containers = Append(@, NewContainer),
                             !.last = threw]
             ELSE [sc EXCEPT !.containers = Append(@, rendered),
                             !.cleanups = Append(@, c),
                             !.title = title,
                             !.last = done]
        ELSE \* flag, createRoot, cleanups.push, and only then act(render)
             IF fails
             THEN [sc EXCEPT !.containers = Append(@, NewContainer),
                             !.cleanups = Append(@, c),
                             !.flag = TRUE,
                             !.last = threw]
             ELSE [sc EXCEPT !.containers = Append(@, rendered),
                             !.cleanups = Append(@, c),
                             !.flag = TRUE,
                             !.title = title,
                             !.last = done]

\* DomScreen.globalAct(cb) of the static version: the callback runs inside
\* the runner, and only when initTest has set it.
globalAct(sc) ==
    IF ~isInit(sc)
    THEN [sc EXCEPT !.last =
            [NoCall EXCEPT !.op = "globalAct", !.status = "throw",
                !.err = "DomScreen.initTest() not called before DomScreen.globalAct()."]]
    ELSE [sc EXCEPT !.last =
            [NoCall EXCEPT !.op = "globalAct",
                           !.steps = <<Step(0, "callback", TRUE)>>]]

\* One teardown thunk, for container c.  bad: the roots whose destroyRoot
\* throws.  The result is [sc, threw].
thunk(sc, c, bad) ==
    LET destroy == IF sc.version = "lifecycle"
                   THEN Step(c, "destroyRoot", TRUE)
                   ELSE Step(c, "unmount", FALSE)
        called == [sc EXCEPT !.containers[c].invoked = @ + 1,
                             !.last.ran = Append(@, c),
                             !.last.steps = Append(@, destroy)]
        destroyed == [called EXCEPT !.containers[c].root = "destroyed"]
    IN  IF c \in bad
        THEN [sc |-> [called EXCEPT !.last.err = "destroyRoot failed"],
              threw |-> TRUE]
        ELSE IF ~sc.containers[c].attached
        THEN [sc |-> [destroyed EXCEPT !.last.err =
                        "container parentNode is null during cleanup."],
              threw |-> TRUE]
        ELSE [sc |-> [destroyed EXCEPT
                        !.containers[c].attached = FALSE,
                        !.title = "",
                        !.last.steps = @ \o <<Step(c, "removeChild", FALSE),
                                               Step(c, "title", FALSE)>>],
              threw |-> FALSE]

\* The loop of cleanup() over this.cleanups; it ends at the first thunk
\* that throws.  r is [sc, threw].
RECURSIVE runCleanupsLastFirst(_, _, _)
runCleanupsLastFirst(list, r, bad) ==
    IF list = <<>> \/ r.threw THEN r
    ELSE CHOOSE out \in
            {runCleanupsLastFirst(SubSeq(list, 1, Len(list) - 1), nxt, bad) :
                nxt \in {thunk(r.sc, list[Len(list)], bad)}} : TRUE
RECURSIVE runCleanups(_, _, _)
runCleanups(list, r, bad) ==
    IF list = <<>> \/ r.threw THEN r
    ELSE CHOOSE out \in
            {runCleanups(Tail(list), nxt, bad) :
                nxt \in {thunk(r.sc, Head(list), bad)}} : TRUE

\* A cleanup() that runs the thunks last registered first.
cleanupLastFirst(sc, bad) ==
    LET start == [sc EXCEPT !.last = [NoCall EXCEPT !.op = "cleanup"],
                            !.flag = IF sc.version = "lifecycle" THEN @ ELSE FALSE]
        r == runCleanupsLastFirst(sc.cleanups, [sc |-> start, threw |-> FALSE], bad)
    IN  IF r.threw
        THEN [r.sc EXCEPT !.last.status = "throw"]
        ELSE [r.sc EXCEPT !.cleanups = <<>>]
\* cleanup(): the registered afterEach hook.
cleanup(sc, bad) ==
    LET start == [sc EXCEPT !.last = [NoCall EXCEPT !.op = "cleanup"],
                            !.flag = IF sc.version = "lifecycle" THEN @ ELSE FALSE]
        r == runCleanups(sc.cleanups, [sc |-> start, threw |-> FALSE], bad)
    IN  IF r.threw
        THEN [r.sc EXCEPT !.last.status = "throw"]
        ELSE [r.sc EXCEPT !.cleanups = <<>>]

ScreenStep(sc) ==
    /\ screen' = sc
    /\ UNCHANGED <<locs, lastIndex, value, setters, ret, retry>>

InitTest ==
    /\ screen.version = "static"
    /\ ScreenStep(initTest(screen))

Render(fails, title) ==
    /\ Len(screen.containers) < MaxRenders
    /\ ScreenStep(render(screen, fails, title))

GlobalAct ==
    /\ screen.version = "static"
    /\ ScreenStep(globalAct(screen))

\* The test runner fires the afterEach hook, which initTest registered.
\* destroyRoot is the caller's only in the lifecycle version.
Cleanup(bad) ==
    /\ screen.isInit
    /\ \A i \in DOMAIN screen.cleanups :
        screen.containers[screen.cleanups[i]].invoked < MaxInvocations
    /\ screen.version # "lifecycle" => bad = {}
    /\ ScreenStep(cleanup(screen, bad))

\* The test body detaches a container itself (document.body.innerHTML = '',
\* container.remove()).
TestDetaches(c) ==
    /\ c \in DOMAIN screen.containers
    /\ screen.containers[c].attached
    /\ ScreenStep([screen EXCEPT !.containers[c].attached = FALSE,
                                 !.last = [NoCall EXCEPT !.op = "detach"]])

NextScreen ==
    \/ InitTest
    \/ \E fails \in BOOLEAN, title \in Titles : Render(fails, title)
    \/ GlobalAct
    \/ \E bad \in SUBSET DOMAIN screen.containers : Cleanup(bad)
    \/ \E c \in 1..MaxRenders : TestDetaches(c)

SpecScreen == InitScreen /\ [][NextScreen]_vars

(***************************************************************************)
(* SpecRetry: one call of a matcher wrapped by waitForSuccess.  The        *)
(* wrapped matcher is synchronous; what it returns on each evaluation      *)
(* depends on the document at that moment, so each outcome is an input.    *)
(* retry.clock counts the milliseconds the timers have waited.             *)
(***************************************************************************)
MaxAttempts == 4
BaseSleepMillis == 5

Messages == {"m1", "m2"}
MatcherThrows == [kind |-> "throw", pass |-> FALSE,
                  message |-> "Expected receiver to be a DomScreen or ScreenLocator"]
\* What one evaluation of the wrapped matcher does.
Evaluate(throws, pass, message) ==
    IF throws THEN MatcherThrows
    ELSE [kind |-> "result", pass |-> pass, message |-> message]
NoResult == [kind |-> "none", pass |-> FALSE, message |-> ""]

successIgnoringIsNot(isNot, result) == result.pass
\* const success = this.isNot !== result.pass
success(isNot, result) == isNot # result.pass

\* the loop test i < 4
loopContinues(i) == i < MaxAttempts

InitRetry ==
    /\ \E isNot \in BOOLEAN, ready \in BOOLEAN :
        retry = [pc |-> "called",
                 isNot |-> isNot,
                 isInit |-> ready,
                 i |-> 0,
                 sleepMillis |-> 0,
                 result |-> NoResult,
                 results |-> <<>>,
                 evalAt |-> <<>>,
                 clock |-> 0,
                 settled |-> NoResult,
                 err |-> ""]
    /\ screen = NoScreen
    /\ locs = <<>>
    /\ lastIndex = [id \in RegexIds |-> 0]
    /\ value = [n \in FormNodes |-> <<>>]
    /\ setters = [n \in FormNodes |-> [own |-> "none", proto |-> "native"]]
    /\ ret = InitRet

RetryStep(r) ==
    /\ retry' = r
    /\ UNCHANGED <<locs, lastIndex, value, setters, ret, screen>>

\* The async matcher is called: DomScreen.globalAct(...) throws when
\* initTest was not called, else the callback starts with sleepMillis = 5.
RetryCall ==
    /\ retry.pc = "called"
    /\ RetryStep(
        IF ~retry.isInit
        THEN [retry EXCEPT !.pc = "rejected",
                !.err = "DomScreen.initTest() not called before DomScreen.globalAct()."]
        ELSE [retry EXCEPT !.pc = "attempt", !.sleepMillis = BaseSleepMillis])

\* One pass through the loop body up to the await: evaluate fn, resolve on
\* success, else arm the timer.  A throw of fn rejects the act callback.
\* A loop body that catches a throw of fn and goes on to the timer.
attemptCatchesThrow(r, throws, pass, message) ==
    LET outcome == Evaluate(throws, pass, message)
        evaluated == [r EXCEPT !.results = Append(@, outcome),
                               !.evalAt = Append(@, r.clock)]
    IN  IF outcome.kind = "throw"
        THEN [evaluated EXCEPT !.pc = "sleeping"]
        ELSE IF success(r.isNot, outcome)
        THEN [evaluated EXCEPT !.result = outcome, !.settled = outcome,
                               !.pc = "resolved"]
        ELSE [evaluated EXCEPT !.result = outcome, !.pc = "sleeping"]
\* The loop body up to the await, for what this evaluation of fn does.
attempt(r, throws, pass, message) ==
    LET outcome == Evaluate(throws, pass, message)
        evaluated == [r EXCEPT !.results = Append(@, outcome),
                               !.evalAt = Append(@, r.clock)]
    IN  IF outcome.kind = "throw"
        THEN [evaluated EXCEPT !.pc = "rejected", !.err = outcome.message]
        ELSE IF success(r.isNot, outcome)
        THEN [evaluated EXCEPT !.result = outcome, !.settled = outcome,
                               !.pc = "resolved"]
        ELSE [evaluated EXCEPT !.result = outcome, !.pc = "sleeping"]

RetryAttempt(throws, pass, message) ==
    /\ retry.pc = "attempt"
    /\ throws => (~pass /\ message = "m1")
    /\ RetryStep(attempt(retry, throws, pass, message))

\* The timer fires: sleepMillis doubles, i++, and the loop either goes
\* round again or ends, resolving with the last result.
RetryTimer ==
    /\ retry.pc = "sleeping"
    /\ LET woke == [retry EXCEPT !.clock = @ + retry.sleepMillis,
                                 !.sleepMillis = @ * 2,
                                 !.i = @ + 1]
       IN  RetryStep(
            IF loopContinues(woke.i)
            THEN [woke EXCEPT !.pc = "attempt"]
            ELSE IF woke.result.kind = "none"
            THEN [woke EXCEPT !.pc = "rejected", !.err = "result must be defined"]
            ELSE [woke EXCEPT !.pc = "resolved", !.settled = woke.result])

NextRetry ==
    \/ RetryCall
    \/ \E throws \in BOOLEAN, pass \in BOOLEAN, message \in Messages :
        RetryAttempt(throws, pass, message)
    \/ RetryTimer

SpecRetry == InitRetry /\ [][NextRetry]_vars

\* The event loop runs the callback and fires armed timers; the wrapped
\* matcher is synchronous and returns or throws.
SpecRetryFair == SpecRetry /\ WF_vars(NextRetry)

(***************************************************************************)
(* SpecMatch: the synchronous matchers of expect(receiver), called on the  *)
(* rendered tree.  A receiver is the DomScreen of the container (node 1),  *)
(* one of the locators a test built, a bare element, or something else.    *)
(* ret records the latest matcher call: norm is the locator verifyReceiver *)
(* returned and same the object it is (0: a new one), sets the arrays the  *)
(* matcher's allElements() calls returned, in order, and recvSet what the  *)
(* receiver's own steps found in the first of them.                        *)
(***************************************************************************)
\* The locators of the tests: 1 is the one the DomScreen holds
\* (ScreenLocator.of(globalAct, container)); 2 all divs; 3 the divs
\* filtered by /a/g; 4 the input; 5 the textarea; 6 the divs inside the
\* textarea (none); 7 what the divs hold with a text matching /a/g.
ScreenLoc == 1
MatchLocators ==
    LET h1 == chainLocator(<<of(1)>>, 1, LocateStep("div"))
        h2 == chainLocator(h1, 2, FilterTextStep(ReArg(1)))
        h3 == chainLocator(h2, 1, LocateStep("input"))
        h4 == chainLocator(h3, 1, LocateStep("textarea"))
        h5 == chainLocator(h4, 5, LocateStep("div"))
    IN  chainLocator(h5, 2, LocateTextStep(ReArg(1)))

ReceiverKinds == {"screen", "locator", "element", "other"}
ElementReceivers == {2, 3, 5, 8}
MatchSelectors == {"div", "input", "div > div"}
ClassNames == {<<"c">>, <<"c", " ", "d">>, <<"f">>}
TextNames == {"a", "k", "/a/g"}
MatcherNames ==
    {"toMatchSelector", "toHaveClass", "toContainText", "toBeInDocument",
     "toHaveTitle"}

\* The text argument a test passes: a string or the RegExp object /a/g.
TextArgOf(t) ==
    CASE t = "a" -> StrArg(<<"a">>)
      [] t = "k" -> StrArg(<<"k">>)
      [] t = "/a/g" -> ReArg(1)

\* document.title of the test document.
DocTitle == ""

NoLoc == [root |-> 0, matchers |-> <<>>]
UnsupportedReceiver == "Expected receiver to be a DomScreen or ScreenLocator, got "

\* A verifyReceiver that roots a new locator at the root of a locator it
\* is given.
verifyReceiverRerooted(h, kind, r) ==
    CASE kind = "screen" -> [status |-> "ok", loc |-> h[ScreenLoc], same |-> ScreenLoc]
      [] kind = "locator" -> [status |-> "ok", loc |-> of(h[r].root), same |-> 0]
      [] kind = "element" -> [status |-> "ok", loc |-> of(r), same |-> 0]
      [] OTHER -> [status |-> "throw", loc |-> NoLoc, same |-> 0]
\* verifyReceiver.  receiver.locate('') of a DomScreen is this.loc.locate(''),
\* which returns this.loc itself.
verifyReceiver(h, kind, r) ==
    CASE kind = "screen" -> [status |-> "ok", loc |-> h[ScreenLoc], same |-> ScreenLoc]
      [] kind = "locator" -> [status |-> "ok", loc |-> h[r], same |-> r]
      [] kind = "element" -> [status |-> "ok", loc |-> of(r), same |-> 0]
      [] OTHER -> [status |-> "throw", loc |-> NoLoc, same |-> 0]

\* The record of a matcher call and the lastIndex of every RegExp after it.
MatcherRet(op, kind, r, arg, sel, v, pass, sets, recvSet) ==
    [op |-> op, recvKind |-> kind, recv |-> r, arg |-> arg, sel |-> sel,
     status |-> v.status,
     err |-> IF v.status = "throw" THEN UnsupportedReceiver ELSE "",
     pass |-> pass, norm |-> v.loc, same |-> v.same, sets |-> sets,
     recvSet |-> recvSet]

MatcherThrew(op, kind, r, arg, v, li) ==
    [ret |-> MatcherRet(op, kind, r, arg, "", v, FALSE, <<>>, <<>>), li |-> li]

\* The check toMatchSelector and toHaveClass share: gotDirect, gotDesc, pass.
selectorCheck(op, kind, r, arg, sel, v, val, li) ==
    LET got == allElements(v.loc, val, li)
        gotDirect == SelectSeq(got.set, LAMBDA el : Matches(el, sel))
        desc == allElements([v.loc EXCEPT !.matchers = Append(@, LocateStep(sel))],
                            val, got.li)
        gotDesc == desc.set
        pass == Len(gotDirect) > 0 \/ Len(gotDesc) > 0
    IN  [ret |-> MatcherRet(op, kind, r, arg, sel, v, pass,
                            <<got.set, gotDesc>>, got.set),
         li |-> desc.li]

toMatchSelector(h, kind, r, selector, val, li) ==
    LET v == verifyReceiver(h, kind, r)
    IN  IF v.status = "throw"
        THEN MatcherThrew("toMatchSelector", kind, r, selector, v, li)
        ELSE selectorCheck("toMatchSelector", kind, r, selector, selector, v, val, li)

RECURSIVE JoinDot(_)
JoinDot(parts) ==
    IF parts = <<>> THEN <<>>
    ELSE IF Len(parts) = 1 THEN parts[1]
    ELSE parts[1] \o <<".">> \o JoinDot(Tail(parts))

\* `.${className.split(' ').map((c) => c.trim()).join('.')}`
classSel(className_) ==
    LET parts == SplitSpace(className_, <<>>)
    IN  Str(<<".">> \o JoinDot([i \in DOMAIN parts |-> Trim(parts[i])]))

toHaveClass(h, kind, r, className_, val, li) ==
    LET v == verifyReceiver(h, kind, r)
    IN  IF v.status = "throw"
        THEN MatcherThrew("toHaveClass", kind, r, className_, v, li)
        ELSE selectorCheck("toHaveClass", kind, r, className_, classSel(className_),
                           v, val, li)

\* loc.filterText(text).allElements(): the loop runs the receiver's steps
\* and then the new step.
toContainText(h, kind, r, t, val, li) ==
    LET v == verifyReceiver(h, kind, r)
        found == allElements(v.loc, val, li)
        gotDirect == Match(FilterTextStep(TextArgOf(t)), found.set, val, found.li)
    IN  IF v.status = "throw"
        THEN MatcherThrew("toContainText", kind, r, t, v, li)
        ELSE [ret |-> MatcherRet("toContainText", kind, r, t, "", v,
                                 Len(gotDirect.set) > 0, <<gotDirect.set>>, found.set),
              li |-> gotDirect.li]

\* pass is the first loc.allElements(); its message is built lazily and
\* is not rendered here.
toBeInDocument(h, kind, r, val, li) ==
    LET v == verifyReceiver(h, kind, r)
        got == allElements(v.loc, val, li)
    IN  IF v.status = "throw"
        THEN MatcherThrew("toBeInDocument", kind, r, "", v, li)
        ELSE [ret |-> MatcherRet("toBeInDocument", kind, r, "", "", v,
                                 Len(got.set) > 0, <<got.set>>, got.set),
              li |-> got.li]

toHaveTitle(h, kind, r, title, li) ==
    LET v == verifyReceiver(h, kind, r)
    IN  IF v.status = "throw"
        THEN MatcherThrew("toHaveTitle", kind, r, title, v, li)
        ELSE [ret |-> MatcherRet("toHaveTitle", kind, r, title, "", v,
                                 DocTitle = title, <<>>, <<>>),
              li |-> li]

InitMatch ==
    /\ locs = MatchLocators
    /\ lastIndex = [id \in RegexIds |-> 0]
    /\ value = [n \in FormNodes |-> <<>>]
    /\ setters = [n \in FormNodes |-> [own |-> "tracker", proto |-> "native"]]
    /\ ret = InitRet
    /\ screen = NoScreen
    /\ retry = NoRetry

\* What a test can pass to expect().
IsReceiver(kind, r) ==
    CASE kind = "screen" -> r = ScreenLoc
      [] kind = "locator" -> r \in DOMAIN locs
      [] kind = "element" -> r \in ElementReceivers
      [] OTHER -> r = 0

MatcherStep(o) ==
    /\ ret' = o.ret
    /\ lastIndex' = o.li
    /\ UNCHANGED <<locs, value, setters, screen, retry>>

ToMatchSelector(kind, r, selector) ==
    /\ IsReceiver(kind, r)
    /\ MatcherStep(toMatchSelector(locs, kind, r, selector, value, lastIndex))

ToHaveClass(kind, r, className_) ==
    /\ IsReceiver(kind, r)
    /\ MatcherStep(toHaveClass(locs, kind, r, className_, value, lastIndex))

ToContainText(kind, r, t) ==
    /\ IsReceiver(kind, r)
    /\ MatcherStep(toContainText(locs, kind, r, t, value, lastIndex))

ToBeInDocument(kind, r) ==
    /\ IsReceiver(kind, r)
    /\ MatcherStep(toBeInDocument(locs, kind, r, value, lastIndex))

ToHaveTitle(kind, r, title) ==
    /\ IsReceiver(kind, r)
    /\ MatcherStep(toHaveTitle(locs, kind, r, title, lastIndex))

\* The test fills the input between two expectations.
FillInput(v) == Fill(4, v)

NextMatch ==
    \/ \E kind \in ReceiverKinds, r \in 0..8, selector \in MatchSelectors :
            ToMatchSelector(kind, r, selector)
    \/ \E kind \in ReceiverKinds, r \in 0..8, className_ \in ClassNames :
            ToHaveClass(kind, r, className_)
    \/ \E kind \in ReceiverKinds, r \in 0..8, t \in TextNames :
            ToContainText(kind, r, t)
    \/ \E kind \in ReceiverKinds, r \in 0..8 : ToBeInDocument(kind, r)
    \/ \E kind \in ReceiverKinds, r \in 0..8, title \in Titles :
            ToHaveTitle(kind, r, title)
    \/ \E v \in FillValues : FillInput(v)
    \/ \E L \in DOMAIN locs : AllElements(L)

SpecMatch == InitMatch /\ [][NextMatch]_vars

(***************************************************************************)
(* Properties of the locator pipeline.                                     *)
(***************************************************************************)
ChainOps == {"locate", "locateRole", "locateText", "filterText", "first"}
DescendantKinds == {"locate", "locateRole", "locateText"}

\* The input set of step i of a locator and the output of that step, as an
\* evaluation in the current state computes them.
StepInput(loc, i) ==
    RunMatchers(SubSeq(loc.matchers, 1, i - 1),
                [set |-> <<loc.root>>, li |-> lastIndex], value)
StepOutput(loc, i) ==
    LET pre == StepInput(loc, i)
    IN  Match(loc.matchers[i], pre.set, value, pre.li)

\* The call left every existing locator, and everything an evaluation could
\* have touched, as it was.
ChainIsPure ==
    /\ lastIndex' = lastIndex
    /\ value' = value
    /\ \A i \in DOMAIN locs :
        /\ i \in DOMAIN locs'
        /\ locs'[i] = locs[i]
        /\ describe(locs'[i]) = describe(locs[i])
        /\ allElements(locs'[i], value', lastIndex')
            = allElements(locs[i], value, lastIndex)

\* The call returned a new object holding the receiver's steps plus one.
ChainAppended ==
    LET L == ret'.loc
        N == ret'.new
    IN  /\ N \notin DOMAIN locs
        /\ N \in DOMAIN locs'
        /\ locs'[N].root = locs[L].root
        /\ Len(locs'[N].matchers) = Len(locs[L].matchers) + 1
        /\ SubSeq(locs'[N].matchers, 1, Len(locs[L].matchers)) = locs[L].matchers
        /\ locs'[N].matchers[Len(locs'[N].matchers)].kind = ret'.op

\* C1 as stated: every chaining call, whatever its argument, returns a new
\* locator with one more step, evaluates nothing and leaves the receiver
\* (its steps, describe() and allElements()) unchanged.
C1_EveryChainAppends ==
    [][ret'.op \in ChainOps => ChainAppended /\ ChainIsPure]_vars

\* C1 amended: the same, except that locate('') appends nothing and returns
\* the receiver itself; it too evaluates nothing and changes no locator.
C1_ChainIsPure ==
    [][ret'.op \in ChainOps =>
        /\ ChainIsPure
        /\ IF ret'.op = "locate" /\ ret'.arg = ""
           THEN ret'.new = ret'.loc /\ locs' = locs
           ELSE ChainAppended]_vars

\* A chaining call was made on a locator that already had a step, after a
\* RegExp of the chain had been advanced by an evaluation.
C1_Witness ==
    /\ ret.op = "filterText"
    /\ ret.new = 3
    /\ Len(locs[3].matchers) = 2
    /\ lastIndex[1] > 0

\* C2: the output of every descendant step (locate, locateText, locateRole)
\* holds only proper descendants of elements of its input set; a locator of
\* one such step never yields its own root.
C2_DescendantExclusion ==
    \A L \in DOMAIN locs :
        /\ \A i \in DOMAIN locs[L].matchers :
            locs[L].matchers[i].kind \in DescendantKinds =>
                \A d \in Range(StepOutput(locs[L], i).set) :
                    \E a \in Range(StepInput(locs[L], i).set) :
                        IsProperDescendant(d, a)
        /\ (Len(locs[L].matchers) = 1
                /\ locs[L].matchers[1].kind \in DescendantKinds) =>
            locs[L].root \notin
                Range(allElements(locs[L], value, lastIndex).set)

\* A one-step locator rooted at node 2, which itself matches the selector
\* and the text of the step, has a non-empty result.
C2_Witness ==
    \E L \in DOMAIN locs :
        /\ locs[L].root = 2
        /\ Len(locs[L].matchers) = 1
        /\ \/ /\ locs[L].matchers[1].kind = "locate"
              /\ Matches(2, locs[L].matchers[1].arg)
           \/ /\ locs[L].matchers[1] = LocateTextStep(StrArg(<<"a">>))
              /\ Includes(getNormalizedText(2, value), <<"a">>)
        /\ allElements(locs[L], value, lastIndex).set # <<>>

\* Whether the own text of e contains the string / matches the RegExp.
OwnTextMatches(a, e) ==
    IF a.kind = "str"
    THEN Includes(getNormalizedText(e, value), a.s)
    ELSE RegExpMatches(a.id, getNormalizedText(e, value))

\* C3: the output of a filterText step is exactly the elements of its input
\* set whose own text contains the string or matches the RegExp.
C3_FilterTextExact ==
    \A L \in DOMAIN locs :
        \A i \in DOMAIN locs[L].matchers :
            locs[L].matchers[i].kind = "filterText" =>
                StepOutput(locs[L], i).set =
                    SelectSeq(StepInput(locs[L], i).set,
                              LAMBDA e : OwnTextMatches(locs[L].matchers[i].arg, e))

(***************************************************************************)
(* Properties of the single-element calls.                                 *)
(***************************************************************************)
SingleOps == {"element", "click", "press", "fill", "blur"}

ZeroMessage ==
    [op \in SingleOps |->
        CASE op = "element" -> "no elements found but expected one: "
          [] op = "click" -> "no elements found to click: "
          [] op = "press" -> "no elements found to press: "
          [] op \in {"fill", "blur"} -> "no elements found to fill: "]

MultipleMessage ==
    [op \in SingleOps |->
        CASE op = "element" -> "multiple elements found but expected one: "
          [] op = "click" -> "multiple elements found to click: "
          [] op = "press" -> "multiple elements found to press: "
          [] op \in {"fill", "blur"} -> "multiple elements found to fill: "]

\* The call threw err before the runner was invoked and changed nothing.
ThrewUntouched(err) ==
    /\ ret'.status = "throw"
    /\ ret'.err = err
    /\ ret'.acts = 0
    /\ ret'.events = <<>>
    /\ value' = value

C5_ControlKeysKeepValue ==
    [][ret'.op = "press" =>
        /\ value' # value => ret'.arg \in CharacterKeys
        /\ (ret'.arg = "Enter" /\ value[5] = <<"F">>) => value'[5] = <<"F">>]_vars

\* C6: fill(v) leaves the element's value equal to v; press(k) of a
\* printable key appends exactly the one character k, and press of any
\* other key appends nothing, so the value is always the last filled value
\* followed by the printable keys pressed since.
C6_FillReplacesPressAppends ==
    [][/\ (ret'.op = "fill" /\ ret'.status = "ok") =>
            value' = [value EXCEPT ![ret'.elems[1]] = ret'.arg]
       /\ (ret'.op = "press" /\ ret'.status = "ok") =>
            IF ret'.arg \in CharacterKeys
            THEN /\ Len(KeyPress[ret'.arg].key) = 1
                 /\ value' = [value EXCEPT ![ret'.elems[1]] =
                                            @ \o KeyPress[ret'.arg].key]
            ELSE value' = value]_vars

(***************************************************************************)
(* Properties of render and cleanup (SpecScreen).                          *)
(***************************************************************************)
Containers == DOMAIN screen.containers

\* C7: over any sequence of render and cleanup calls every registered
\* teardown thunk is invoked at most once, and a cleanup call that follows
\* a cleanup call with no render in between invokes no thunk and does not
\* throw.
C7_CleanupIdempotent ==
    [][/\ \A c \in DOMAIN screen'.containers :
            screen'.containers[c].invoked <= 1
       /\ (screen.last.op = "cleanup" /\ screen'.last.op = "cleanup")
            => /\ screen'.last.ran = <<>>
               /\ screen'.last.status = "ok"]_vars

\* C8: once the cleanup hook has run, after any render calls, returned or
\* thrown, no container that a render call attached is still in
\* document.body and IS_REACT_ACT_ENVIRONMENT is false; the same after a
\* second run of the hook.
C8_NoLingeringContainers ==
    screen.last.op = "cleanup"
        => /\ \A c \in Containers : ~screen.containers[c].attached
           /\ ~screen.flag

(***************************************************************************)
(* Properties of waitForSuccess (SpecRetry, SpecRetryFair).                *)
(***************************************************************************)
Evaluations == Len(retry.results)
LastEvaluation == retry.results[Evaluations]

\* Every evaluation before the last one returned a result that was not a
\* success for this isNot.
EarlierAllFailed ==
    \A k \in 1..(Evaluations - 1) :
        /\ retry.results[k].kind = "result"
        /\ retry.results[k].pass = retry.isNot

\* The promise resolved with the last evaluation's own result, which is
\* the first success or the 4th evaluation.
ResolvedWithLast ==
    /\ Evaluations >= 1
    /\ retry.settled = LastEvaluation
    /\ retry.settled.kind = "result"
    /\ retry.err = ""
    /\ \/ retry.settled.pass # retry.isNot
       \/ Evaluations = 4

\* The promise rejected with an error of the runner or of the matcher.
RejectedByThrow ==
    \/ ~retry.isInit /\ Evaluations = 0
    \/ /\ Evaluations >= 1
       /\ LastEvaluation.kind = "throw"
       /\ retry.err = LastEvaluation.message

\* C9 as stated: at most 4 evaluations, stop at the first success and
\* resolve with it, else resolve after exactly 4 evaluations with the 4th
\* result; the call always resolves.
C9_AlwaysResolves ==
    /\ [](/\ Evaluations <= 4
          /\ EarlierAllFailed
          /\ retry.pc # "rejected"
          /\ retry.pc = "resolved" => ResolvedWithLast)
    /\ <>(retry.pc = "resolved")

\* C9, amended: as stated whenever the runner is initialized and no
\* evaluation throws; a throw of the runner or of the matcher rejects the
\* promise with that error after that evaluation.  The call always settles,
\* and no error of the wrapper's own is produced.
C9_RetryOutcome ==
    /\ [](/\ Evaluations <= 4
          /\ EarlierAllFailed
          /\ retry.pc = "resolved" => ResolvedWithLast
          /\ retry.pc = "rejected" => RejectedByThrow)
    /\ <>(retry.pc \in {"resolved", "rejected"})
    /\ <>(\/ retry.pc = "resolved"
          \/ retry.pc = "rejected" /\ RejectedByThrow)

\* C9 witness: the 4th evaluation failed too, with isNot set, and the call
\* resolved with its result.
C9_Witness ==
    /\ retry.pc = "resolved"
    /\ retry.isNot
    /\ Evaluations = 4
    /\ retry.settled = LastEvaluation
    /\ retry.settled.pass

\* C10: consecutive attempts are 5, 10 and 20 ms apart, and the call
\* resolves at the time of its last attempt, with no wait after a success
\* or after the 4th attempt.
C10_DelaysOnlyBetweenAttempts ==
    /\ \A k \in 1..(Len(retry.evalAt) - 1) :
        retry.evalAt[k + 1] - retry.evalAt[k] = <<5, 10, 20>>[k]
    /\ retry.pc = "resolved"
        => retry.clock = retry.evalAt[Len(retry.evalAt)]

\* The steps the claim on runner scoping names for render and teardown.
RootSteps == {"createRoot", "render", "destroyRoot", "unmount"}

\* C11: every mutation-triggering step of render and teardown (creating
\* the root, rendering into it, destroying or unmounting it) runs inside a
\* callback passed to the runner, never outside it.
C11_RunnerScoping ==
    \A k \in DOMAIN screen.last.steps :
        screen.last.steps[k].what \in RootSteps => screen.last.steps[k].inAct

\* The steps of a thunk that ran to its end, for container c.
IsWholeThunk(steps, k, c) ==
    /\ k + 2 <= Len(steps)
    /\ steps[k].c = c /\ steps[k].what \in {"destroyRoot", "unmount"}
    /\ steps[k + 1] = Step(c, "removeChild", FALSE)
    /\ steps[k + 2] = Step(c, "title", FALSE)

\* C12: one cleanup call runs the pending thunks in the order their render
\* calls registered them, first registered first, and each thunk has
\* destroyed its root, detached its container and reset the title before
\* the next one starts.
C12_CleanupOrder ==
    [][screen'.last.op = "cleanup" =>
        LET ran == screen'.last.ran
            steps == screen'.last.steps
            ok == screen'.last.status = "ok"
        IN  /\ Len(ran) <= Len(screen.cleanups)
            /\ ran = SubSeq(screen.cleanups, 1, Len(ran))
            /\ \A i, j \in DOMAIN ran : i < j => ran[i] < ran[j]
            /\ ok => ran = screen.cleanups
            /\ \A i \in DOMAIN ran :
                (i < Len(ran) \/ ok) => IsWholeThunk(steps, 3 * (i - 1) + 1, ran[i])
            /\ ok => Len(steps) = 3 * Len(ran)]_vars

\* C12 witness: a cleanup call ran two thunks to their end.
C12_Witness ==
    /\ screen.last.op = "cleanup"
    /\ screen.last.status = "ok"
    /\ screen.last.ran = <<1, 2>>
    /\ \A c \in Containers : ~screen.containers[c].attached

(***************************************************************************)
(* Further properties of the interaction calls (SpecAct).                  *)
(***************************************************************************)
\* The elements the locator of the call just made matched, as evaluated in
\* the state the call started from.
MatchedBefore == allElements(locs[ret'.loc], value, lastIndex).set

\* The call threw before it invoked the runner: nothing was dispatched and
\* no value changed.
ThrewBeforeAct(message) ==
    /\ ret'.status = "throw"
    /\ ret'.err[1] = message
    /\ ret'.acts = 0
    /\ ret'.events = <<>>
    /\ value' = value

\* C13: press() on a single matched element that is no input, textarea or
\* select throws 'cannot press key on tag'; press() on a single matched
\* form element with a key that is not in the key table throws 'unknown
\* key'; fill() on a single matched element that is no form element throws
\* too; each of them before the runner is invoked, with no event dispatched
\* and the value unchanged.
C13_CapabilityErrors ==
    [][/\ (ret'.op = "press" /\ Len(MatchedBefore) = 1
                /\ MatchedBefore[1] \notin FormNodes)
            => ThrewBeforeAct("cannot press key on tag: ")
       /\ (ret'.op = "press" /\ Len(MatchedBefore) = 1
                /\ MatchedBefore[1] \in FormNodes
                /\ ret'.arg \notin DOMAIN KeyPress)
            => ThrewBeforeAct("unknown key: ")
       /\ (ret'.op = "fill" /\ Len(MatchedBefore) = 1
                /\ MatchedBefore[1] \notin FormNodes)
            => ThrewBeforeAct("cannot fill out tag: ")]_vars

\* C13 witness: press of a key that is not in the table on the input, after
\* the input was filled.
C13_Witness ==
    /\ ret.op = "press"
    /\ ret.arg = "Nope"
    /\ ret.status = "throw"
    /\ ret.err[1] = "unknown key: "
    /\ value[5] = <<"a">>

(***************************************************************************)
(* Further properties of the locator pipeline (SpecLoc).                   *)
(***************************************************************************)
\* The argument of a step as the caller passed it, as text.
PassedText(step) ==
    CASE step.kind = "locate" -> step.arg
      [] step.kind = "locateRole" -> Str(step.arg)
      [] step.kind = "first" -> ""
      [] OTHER -> IF step.arg.kind = "re" THEN Regexes[step.arg.id].text
                  ELSE Str(step.arg.s)

\* "methodName(argument)"
PlainFormat(step) == step.kind \o "(" \o PassedText(step) \o ")"

\* The entries joined with " -> ", built from the last entry backwards.
RECURSIVE ArrowJoined(_)
ArrowJoined(ds) ==
    IF Len(ds) = 0 THEN ""
    ELSE IF Len(ds) = 1 THEN ds[1]
    ELSE ArrowJoined(SubSeq(ds, 1, Len(ds) - 1)) \o " -> " \o ds[Len(ds)]

\* describe() has one entry per step, in order, and formatDescription() is
\* the entries joined; Format says what the entry of a step is.
DescribesAs(Format(_)) ==
    \A L \in DOMAIN locs :
        /\ Len(describe(locs[L])) = Len(locs[L].matchers)
        /\ \A i \in DOMAIN locs[L].matchers :
            describe(locs[L])[i] = Format(locs[L].matchers[i])
        /\ formatDescription(locs[L]) = ArrowJoined(describe(locs[L]))

\* C14 as stated: every entry of describe() is "methodName(argument)" with
\* the argument as passed, string or regex, one per step in call order,
\* and formatDescription() joins them with " -> ".
C14_DescribeIsMethodAndArgument == DescribesAs(PlainFormat)

\* The entry the code writes for a step: locateText of a RegExp is labelled.
LabelledFormat(step) ==
    IF step.kind = "locateText" /\ step.arg.kind = "re"
    THEN "locateText(regexp: " \o PassedText(step) \o ")"
    ELSE PlainFormat(step)

\* C14 amended: the same, except that locateText of a regex describes as
\* "locateText(regexp: /re/)"; filterText of a regex is "filterText(/re/)".
C14_DescribeFidelity == DescribesAs(LabelledFormat)

\* C14 witness: locateText(/^b$/) followed by filterText(/a/g).
C14_Witness ==
    \E L \in DOMAIN locs :
        describe(locs[L]) = <<"locateText(regexp: /^b$/)", "filterText(/a/g)">>

\* C15: at materialisation a first() step maps an empty input to the empty
\* set, raising nothing, and a non-empty input to the singleton of its
\* first member in traversal order, whatever the input is in the state of
\* that materialisation; allElements() of a locator that ends in first()
\* has length 0 or 1.
C15_FirstNarrows ==
    \A L \in DOMAIN locs :
        LET n == Len(locs[L].matchers)
        IN  /\ \A i \in 1..n :
                locs[L].matchers[i].kind = "first" =>
                    LET in == StepInput(locs[L], i)
                        out == StepOutput(locs[L], i)
                    IN  /\ in.set = <<>> => out.set = <<>>
                        /\ in.set # <<>> => out.set = <<in.set[1]>>
                        /\ out.li = in.li
            /\ (n > 0 /\ locs[L].matchers[n].kind = "first") =>
                    Len(allElements(locs[L], value, lastIndex).set) <= 1
            /\ (ret.op = "allElements" /\ ret.loc = L /\ n > 0
                    /\ locs[L].matchers[n].kind = "first") =>
                    /\ ret.status = "ok"
                    /\ Len(ret.elems) <= 1

\* C15 witness: a locator ending in first() was materialised and gave one
\* element, and the same locator gives a different result now that a RegExp
\* of its chain has moved.
C15_Witness ==
    \E L \in DOMAIN locs :
        /\ Len(locs[L].matchers) = 2
        /\ locs[L].matchers[2].kind = "first"
        /\ ret.op = "allElements" /\ ret.loc = L
        /\ Len(ret.elems) = 1
        /\ allElements(locs[L], value, lastIndex).set # ret.elems

(***************************************************************************)
(* Text extraction, over the values the interaction calls produce          *)
(* (SpecAct).                                                              *)
(***************************************************************************)
\* The text of the direct text-node children of n, concatenated.
RECURSIVE DirectText(_, _)
DirectText(n, k) ==
    IF k > Len(childNodes[n]) THEN <<>>
    ELSE (IF childNodes[n][k].t = "text" THEN childNodes[n][k].s ELSE <<>>)
            \o DirectText(n, k + 1)

\* The words of s: its maximal runs of characters that are no whitespace.
RECURSIVE WordsOf(_, _)
WordsOf(s, word) ==
    IF s = <<>> THEN (IF word = <<>> THEN <<>> ELSE <<word>>)
    ELSE IF Head(s) \in {" ", "\n", "\t"}
    THEN (IF word = <<>> THEN <<>> ELSE <<word>>) \o WordsOf(Tail(s), <<>>)
    ELSE WordsOf(Tail(s), Append(word, Head(s)))

\* The words joined by single spaces.
RECURSIVE SpaceJoined(_)
SpaceJoined(ws) ==
    IF ws = <<>> THEN <<>>
    ELSE IF Len(ws) = 1 THEN ws[1]
    ELSE ws[1] \o <<" ">> \o SpaceJoined(Tail(ws))

\* Every whitespace run collapsed to one space, both ends trimmed.
CollapsedDirectText(n) == SpaceJoined(WordsOf(DirectText(n, 1), <<>>))

\* The examples: text children " a\n" and " b " give "a b", and the text of
\* a nested element is left out.
TextExamples ==
    /\ getNormalizedText(2, value) = <<"a", " ", "b">>
    /\ getNormalizedText(3, value) = <<"a">>
    /\ getNormalizedText(1, value) = <<>>

NotCalledErrors ==
    {"DomScreen.initTest() not called before DomScreen.render().",
     "DomScreen.initTest() not called before DomScreen.globalAct()."}

\* C19: a render or a globalAct call made before initTest throws the
\* 'initTest() not called' error and changes nothing: no container is
\* attached, no teardown thunk is registered, the runner callback does not
\* run and the module stays unconfigured.
C19_ConfigErrorBeforeInit ==
    [][(~screen.isInit /\ screen'.last.op \in {"render", "globalAct"}) =>
        /\ screen'.last.status = "throw"
        /\ screen'.last.err \in NotCalledErrors
        /\ screen'.last.steps = <<>>
        /\ screen'.last.ran = <<>>
        /\ screen'.containers = screen.containers
        /\ screen'.cleanups = screen.cleanups
        /\ screen'.flag = screen.flag
        /\ screen'.title = screen.title
        /\ ~screen'.isInit]_vars

\* C19 witness: render was called on the unconfigured static module and
\* threw.
C19_Witness ==
    /\ screen.version = "static"
    /\ ~screen.isInit
    /\ screen.last.op = "render"
    /\ screen.last.status = "throw"
    /\ screen.containers = <<>>

(***************************************************************************)
(* Properties of the matchers (SpecMatch).                                 *)
(***************************************************************************)
\* C16: every matcher first normalises its receiver: a screen becomes its
\* root zero-step locator, a locator is used as it is (the same object,
\* steps and root), an element becomes a zero-step locator rooted at it,
\* and any other receiver makes the matcher throw the unsupported-receiver
\* error before anything is materialised or any predicate is evaluated.
C16_ReceiverNormalization ==
    [][ret'.op \in MatcherNames =>
        /\ ret'.recvKind = "screen" =>
            /\ ret'.status = "ok"
            /\ ret'.norm = [root |-> 1, matchers |-> <<>>]
        /\ ret'.recvKind = "locator" =>
            /\ ret'.status = "ok"
            /\ ret'.same = ret'.recv
            /\ ret'.norm = locs[ret'.recv]
            /\ locs' = locs
        /\ ret'.recvKind = "element" =>
            /\ ret'.status = "ok"
            /\ ret'.norm = [root |-> ret'.recv, matchers |-> <<>>]
        /\ ret'.recvKind = "other" =>
            /\ ret'.status = "throw"
            /\ ret'.err = UnsupportedReceiver
            /\ ret'.sets = <<>>
            /\ lastIndex' = lastIndex
        /\ ret'.status = "ok" /\ ret'.sets # <<>> =>
            \* the first materialisation is that of the normalised locator
            ret'.recvSet = allElements(ret'.norm, value, lastIndex).set]_vars

\* C16 witness: a matcher was given a receiver that is no screen, locator or
\* element while a RegExp had a position to lose, and threw.
C16_Witness ==
    /\ ret.op = "toContainText"
    /\ ret.recvKind = "other"
    /\ ret.status = "throw"
    /\ lastIndex[1] = 1

\* The selector a selector matcher checked.
HasOrHolds(e, sel) ==
    \/ Matches(e, sel)
    \/ \E d \in Range(Descendants(e)) : Matches(d, sel)

\* The class tokens toHaveClass was given.
ClassTokens(cls) == {c \in {"c", "d", "f"} : \E i \in DOMAIN cls : cls[i] = c}

CarriesOrHolds(e, tokens) ==
    \/ tokens \subseteq className[e]
    \/ \E d \in Range(Descendants(e)) : tokens \subseteq className[d]

\* C17: toMatchSelector passes iff an element of the receiver's
\* materialised set matches the selector or has a descendant that does;
\* toHaveClass is that check for the selector of the listed classes, so it
\* passes iff such an element carries them all; an empty set never passes.
C17_SelectorMatchPass ==
    /\ (ret.op = "toMatchSelector" /\ ret.status = "ok") =>
        /\ ret.pass <=> \E e \in Range(ret.recvSet) : HasOrHolds(e, ret.arg)
        /\ ret.recvSet = <<>> => ~ret.pass
    /\ (ret.op = "toHaveClass" /\ ret.status = "ok") =>
        /\ ret.pass <=> \E e \in Range(ret.recvSet) :
                            CarriesOrHolds(e, ClassTokens(ret.arg))
        /\ ret.recvSet = <<>> => ~ret.pass

\* The own text of e contains the string or matches the regular expression.
OwnTextHas(e, t) ==
    IF TextArgOf(t).kind = "str"
    THEN Includes(getNormalizedText(e, value), TextArgOf(t).s)
    ELSE RegExpMatches(TextArgOf(t).id, getNormalizedText(e, value))

\* C18: toContainText passes iff an element of the receiver's materialised
\* set has own text that contains the string or matches the regex; text of
\* descendants never counts, so the screen fails for "a" while locateText
\* finds the nested elements.
C18_TextContainmentPass ==
    (ret.op = "toContainText" /\ ret.status = "ok") =>
        /\ ret.pass <=> \E e \in Range(ret.recvSet) : OwnTextHas(e, ret.arg)
        /\ (ret.recvKind = "screen" /\ ret.arg = "a") =>
            /\ ~ret.pass
            /\ allElements([root |-> 1, matchers |-> <<LocateTextStep(StrArg(<<"a">>))>>],
                           value, lastIndex).set # <<>>

(***************************************************************************)
(* Role matching (SpecLoc).                                                *)
(***************************************************************************)
\* The tokens of a role attribute: its pieces between runs of whitespace.
RoleTokens(e) == Range(WordsOf(roleAttr[e], <<>>))

\* C21: a locateRole(role) step keeps exactly the descendants of its input
\* whose role attribute, split on whitespace, has role as a token; an
\* element without role attribute, or whose tokens only contain role as a
\* substring, is never kept.
C21_RoleMatch ==
    \A L \in DOMAIN locs :
        \A i \in DOMAIN locs[L].matchers :
            locs[L].matchers[i].kind = "locateRole" =>
                /\ Range(StepOutput(locs[L], i).set) =
                    {d \in Nodes :
                        /\ \E a \in Range(StepInput(locs[L], i).set) :
                                IsProperDescendant(d, a)
                        /\ locs[L].matchers[i].arg \in RoleTokens(d)}
                /\ \A d \in Range(StepOutput(locs[L], i).set) :
                        roleAttr[d] # <<>>

(***************************************************************************)
(* Order and uniqueness of a materialisation (SpecMatch).                  *)
(***************************************************************************)
\* The elements of the rendered tree in document order (pre-order).
DocumentOrder == <<1>> \o Descendants(1)
DocPos(e) == CHOOSE k \in DOMAIN DocumentOrder : DocumentOrder[k] = e

\* C22: allElements() holds no element twice and lists its elements in
\* document order, so first() selects the matched element that comes
\* earliest in the document.
C22_OrderAndUniqueness ==
    ret.op = "allElements" =>
        /\ \A i, j \in DOMAIN ret.elems :
            i < j => DocPos(ret.elems[i]) < DocPos(ret.elems[j])
        /\ ret.elems # <<>> =>
            \A e \in Range(ret.elems) :
                DocPos(first(ret.elems, lastIndex).set[1]) <= DocPos(e)

(***************************************************************************)
(* The event scripts of the interaction calls (SpecAct).                   *)
(***************************************************************************)
\* What the callback of the latest call did, in order: the events it
\* dispatched and the write of the value ("setValue"), without the calls of
\* elem.focus() and elem.blur().
Dispatched ==
    LET kept == SelectSeq(ret.events, LAMBDA ev : ev.type \notin {"focus()", "blur()"})
    IN  [i \in DOMAIN kept |-> kept[i].type]

\* The script of each call as the claim lists it.
EventScript ==
    CASE ret.op = "click" -> <<"focus", "click", "blur">>
      [] ret.op = "press" ->
            <<"focus", "keydown", "keyup">>
                \o (IF isPrintable(KeyPress[ret.arg].keyCode)
                    THEN <<"setValue">> ELSE <<>>)
                \o <<"keypress", "input", "change">>
      [] ret.op = "fill" -> <<"focus", "setValue", "input", "change", "blur">>

ReachedRunner == ret.op \in {"click", "press", "fill"} /\ ret.acts > 0

\* Everything the call did happened inside one invocation of the runner.
InOneRunnerCall ==
    /\ ret.acts = 1
    /\ \A i \in DOMAIN ret.events : ret.events[i].inAct

\* The position of an entry of the latest call, 0 when it has none.
PosOf(type) ==
    IF \E i \in DOMAIN Dispatched : Dispatched[i] = type
    THEN CHOOSE i \in DOMAIN Dispatched : Dispatched[i] = type
    ELSE 0

\* The value is written before input and change are dispatched.
ValueBeforeHandlers ==
    \A type \in {"input", "change"} :
        (PosOf("setValue") > 0 /\ PosOf(type) > 0) => PosOf("setValue") < PosOf(type)

\* C23 as stated: every click, press and fill that reaches the runner
\* performs its whole script in one runner invocation, in the fixed order.
C23_WholeEventScript ==
    ReachedRunner =>
        /\ InOneRunnerCall
        /\ Dispatched = EventScript
        /\ ValueBeforeHandlers

\* The script up to and including the write of the value.
PosOfSetValueInScript ==
    CHOOSE i \in DOMAIN EventScript : EventScript[i] = "setValue"
UpToSetValue == SubSeq(EventScript, 1, PosOfSetValueInScript)

\* C23 amended: a call that returns performed its whole script, in order,
\* in one runner invocation, the value written before input and change; a
\* call whose write of the value throws performed the script up to that
\* write and dispatched nothing after it.
C23_EventOrder ==
    ReachedRunner =>
        /\ InOneRunnerCall
        /\ ValueBeforeHandlers
        /\ ret.status = "ok" =>
            /\ Dispatched = EventScript
            /\ ret.op = "fill" => value[ret.elems[1]] = ret.arg
        /\ ret.status = "throw" =>
            /\ ret.err = SetterErr
            /\ ret.op \in {"press", "fill"}
            /\ Dispatched = UpToSetValue

\* C23 witness: a fill returned after changing the value of the input.
C23_Witness ==
    /\ ret.op = "fill"
    /\ ret.status = "ok"
    /\ ret.arg = <<"a">>
    /\ ret.elems = <<5>>
    /\ value[5] = <<"a">>
    /\ Len(ret.events) = 7

(***************************************************************************)
(* Cleanup when a teardown thunk throws (SpecScreen).                      *)
(***************************************************************************)
\* C24: in a cleanup invocation every registered thunk is run, also those
\* registered after a thunk that throws, and the cleanups list is empty
\* when the invocation ends, so no later invocation runs a thunk again.
C24_CleanupUnderFailingThunk ==
    [][screen'.last.op = "cleanup" =>
        /\ screen'.last.ran = screen.cleanups
        /\ screen'.cleanups = <<>>
        /\ \A i \in DOMAIN screen'.last.ran :
            screen.containers[screen'.last.ran[i]].invoked = 0]_vars

(***************************************************************************)
(* Errors inside the retry wrapper (SpecRetryFair).                        *)
(***************************************************************************)
NotInitError == "DomScreen.initTest() not called before DomScreen.globalAct()."

\* The latest evaluation threw: the call is rejected with that error, at
\* the time of that evaluation, and nothing was resolved.
RejectedAtThrow ==
    /\ retry.pc = "rejected"
    /\ retry.err = LastEvaluation.message
    /\ retry.clock = retry.evalAt[Evaluations]
    /\ retry.settled = NoResult

\* C25: a throw of the wrapped matcher, or of the runner that was never
\* initialized, is not retried: no evaluation and no delay follows it, the
\* returned promise rejects with that error, and the promise never stays
\* pending.
C25_ErrorsNotRetried ==
    /\ [](/\ \A k \in 1..(Evaluations - 1) : retry.results[k].kind = "result"
          /\ (Evaluations >= 1 /\ LastEvaluation.kind = "throw") => RejectedAtThrow
          /\ (~retry.isInit /\ retry.pc # "called") =>
                /\ retry.pc = "rejected"
                /\ retry.err = NotInitError
                /\ Evaluations = 0
                /\ retry.clock = 0)
    /\ [][retry.pc = "rejected" => retry' = retry]_vars
    /\ <>(retry.pc \in {"resolved", "rejected"})

\* C25 witness: the third evaluation threw, 15 ms after the first, and the
\* call is rejected with its error.
C25_Witness ==
    /\ retry.pc = "rejected"
    /\ Evaluations = 3
    /\ LastEvaluation.kind = "throw"
    /\ retry.err = LastEvaluation.message
    /\ retry.clock = 15

(***************************************************************************)
(* setElementValue as fill and press use it (SpecAct).                     *)
(***************************************************************************)
\* C26: a call of setElementValue either writes the new value and returns,
\* or throws 'element does not have a value setter' with the value of the
\* element unchanged; it never changes the value and then throws.
C26_SetValueAllOrNothing ==
    [][(/\ ret'.op \in {"fill", "press"}
        /\ \E i \in DOMAIN ret'.events : ret'.events[i].type = "setValue") =>
        LET elem == ret'.elems[1]
            new == IF ret'.op = "fill" THEN ret'.arg
                   ELSE value[elem] \o KeyPress[ret'.arg].key
        IN  \/ /\ ret'.status = "ok"
               /\ value' = [value EXCEPT ![elem] = new]
            \/ /\ ret'.status = "throw"
               /\ ret'.err = SetterErr
               /\ value' = value]_vars

====
